---------------------------- MODULE Spec2Model ----------------------------
(***************************************************************************)
(* Seat inventory and booking state machine of safarshare-backend.        *)
(*                                                                         *)
(* The repository holds two deployments of the same domain:               *)
(*   "clerk"   routes/bookings.js + routes/rides.js over models/Booking.js *)
(*             and the first schema of models/Ride.js (request-to-book),   *)
(*   "instant" routes/ride.js over the second schema of models/Ride.js     *)
(*             (instant booking, statuses booked/cancelled).               *)
(* A behaviour runs one of them against one ride.  Every handler is an     *)
(* async function: each store operation it awaits is one atomic step, and  *)
(* the steps of the requests in flight interleave freely.                  *)
(***************************************************************************)
EXTENDS Integers, Sequences, FiniteSets, Bags, TLC

VARIABLES
    deployment,     \* which route set serves the requests
    ioReady,        \* config/socket.js: the module-level io handle is set
    ride,           \* the Ride document in the store
    bookings,       \* the Booking collection, in insertion order (id = index)
    notifications,  \* the Notification collection, a bag of [user, type, title]
    payments,       \* the Payment collection, in insertion order (id = index)
    reqs,           \* the requests in flight: handler, position, locals
    reply,          \* the response sent by the last step, if it sent one
    hist            \* observer: the seats at the start, the requests that have
                    \* arrived, whether they were all booking 1's own create,
                    \* accept, decline and cancel, one at a time, and whether
                    \* booking 1 has been accepted

vars == <<deployment, ioReady, ride, bookings, notifications, payments, reqs, reply,
         hist>>

-----------------------------------------------------------------------------
(* Bounds of the model *)

MaxSeats == 2        \* totalSeats of the ride: 1..MaxSeats
MaxSeatsBooked == 1  \* seats asked for by one booking request: 1..MaxSeatsBooked
MaxOps == 4          \* requests that arrive in one behaviour
MaxBookings == 2     \* Booking documents ever inserted
NumPassengers == 2   \* users besides the driver
NumReq == 2          \* requests in flight at once
MaxPayments == 2     \* Payment documents ever inserted
MaxPrice == 1        \* pricePerSeat of the ride: 1..MaxPrice
MaxFare == 2         \* pricePerSeat in a ride update: 1..MaxFare
MaxInits == 3        \* calls of initSocket

(* Program constants *)

SeatsBookedMax == 4  \* bookingSchema.seatsBooked.max
RideSeatsMax == 8    \* rideSchema.availableSeats.max, totalSeats.max

Driver == NumPassengers + 1
Passengers == 1..NumPassengers
Users == 1..(NumPassengers + 1)
Slots == 1..NumReq
BookingIds == 1..MaxBookings

-----------------------------------------------------------------------------
(* Documents, requests, replies *)

\* A handler that holds no Ride document.
NoDoc == <<>>

\* The Ride document a handler has loaded, as far as it goes on to use it:
\* the paths it reads again, assigns, or has validated when it saves.
Loaded(paths) == [f \in paths |-> ride[f]]

\* A slot with no request in it.
Idle ==
    [op |-> "none", pc |-> "idle", user |-> 0, bid |-> 0, seats |-> 0,
     body |-> <<>>, doc |-> NoDoc, prev |-> "none", todo |-> <<>>]

NoReply == [op |-> "none"]

\* A request as it arrives; the handler runs to its first await at once.
Request(op, user, bid, seats) ==
    [Idle EXCEPT !.op = op, !.user = user, !.bid = bid, !.seats = seats]

\* Slots fill lowest first: which free slot serves a request is not observable.
Free(s) ==
    /\ hist.arrived < MaxOps
    /\ reqs[s].pc = "idle"
    /\ \A t \in Slots : t < s => reqs[t].pc # "idle"

InFlight(t) == reqs[t].pc # "idle"

CreateOps == {"createBooking", "bookRide", "instantBook"}

Creating == {t \in Slots : InFlight(t) /\ reqs[t].op \in CreateOps}

\* The model stops admitting booking requests once MaxBookings documents
\* exist or are being created.
RoomForBooking == Len(bookings) + Cardinality(Creating) < MaxBookings

\* The request is one of booking 1's own: the one that creates it, or an
\* accept, decline or passenger cancel of it, with nothing else in flight.
OwnRequest(op, bid) ==
    /\ \A t \in Slots : ~InFlight(t)
    /\ \/ op \in CreateOps /\ Len(bookings) = 0
       \/ /\ op \in {"acceptBooking", "declineBooking", "cancelBooking", "instantCancel"}
          /\ bid = 1

Arrive(r) ==
    hist' = [hist EXCEPT !.solo = @ /\ OwnRequest(r.op, r.bid), !.arrived = @ + 1]

\* res.status(...).json(...): the handler is over and its slot is free.
Finish(s, r, outcome) ==
    /\ reqs' = [reqs EXCEPT ![s] = Idle]
    /\ reply' = [op |-> r.op, user |-> r.user, bid |-> r.bid, res |-> outcome]

\* The handler awaits its next store operation.
Continue(s, r) ==
    /\ reqs' = [reqs EXCEPT ![s] = r]
    /\ reply' = NoReply

\* Notification.create / new Notification(...).save()
\* read (isRead in the first schema) defaults to false.
Note(user, type, title) ==
    [user |-> user, type |-> type, title |-> title, read |-> FALSE]

AddNote(n) == notifications (+) SetToBag({n})

\* Socket.IO room names, as the prefix the template literal writes and the
\* user id that follows it.
\* utils/notifications.js: io.to(`user_${userId}`)
UserRoom(id) == <<"user_", id>>

\* routes/payments.js: req.io.to(booking.rideId.driverId.toString())
PaymentRoom(id) == <<"", id>>

\* routes/ride.js: io.to(`driver:${ride.driver}`), io.to(`passenger:${...}`)
RoleRoom(role, id) == <<IF role = "driver" THEN "driver:" ELSE "passenger:", id>>

RoleOf(id) == IF id = Driver THEN "driver" ELSE "passenger"

\* The room the event published with a notification is addressed to.
EventRoom(n) ==
    CASE n.type = "payment" -> PaymentRoom(n.user)
      [] n.type \in {"booking_request", "booking_declined"} -> UserRoom(n.user)
      [] OTHER -> RoleRoom(RoleOf(n.user), n.user)

\* routes/rides.js calls createNotification without the io argument: the
\* notification is stored and no event is published.
Publishes(n) == n.type \notin {"ride_cancelled", "new_booking"}

\* The rooms the socket of user id is in once connected: index.js joins
\* user_<id> on connection, config/socket.js joins the role room on 'auth'.
JoinedRooms(id) ==
    IF deployment = "clerk" THEN {UserRoom(id)} ELSE {RoleRoom(RoleOf(id), id)}

ActiveIds == {b \in DOMAIN bookings : bookings[b].status \notin {"cancelled", "declined"}}

-----------------------------------------------------------------------------
(* Seeded faults: what a handler would compute with a plausible slip in it. *)
(* A property that is about the code fails when one of these stands in for *)
(* the definition it is named after.                                       *)

\* For CreatePayment_SaveFailed: the catch answers without saving the payment.
CreatePayment_SaveFailed_NotSaved(s) ==
    /\ reqs[s].op = "createPayment" /\ reqs[s].pc = "saveFailed"
    /\ Finish(s, reqs[s], "payment_failed")
    /\ UNCHANGED <<deployment, ioReady, payments, ride, bookings, notifications, hist>>

\* For IsPending: the status check copied from the cancel handler.
IsPending_NotCancelled(status) == status # "cancelled"

\* For RestoredRide: the seats are not put back on the document before the save.
RestoredRide_SeatsKept(doc, seats) == doc

\* For IsPassenger: the check of who is calling left out.
IsPassenger_Anyone(booking, user) == TRUE

\* For NewBooking: the amount is the seat count, the price left out.
NewBooking_PriceLeftOut(passenger, seats, price) ==
    [passenger |-> passenger, seatsBooked |-> seats, status |-> "pending",
     totalAmount |-> seats, paymentStatus |-> "pending",
     mpesaTransactionId |-> 0, mpesaReceiptNumber |-> 0]

\* For PaidBooking: the identifiers of the transaction are not copied over.
PaidBooking_StatusOnly(booking, pid) == [booking EXCEPT !.paymentStatus = "paid"]

\* For HasHandle: initSocket without its guard.
HasHandle_Never == FALSE

\* For IsRecipient: the filter leaves the recipient out.
IsRecipient_Anyone(n, user) == TRUE

\* For Payable: every booking that is still alive may be paid.
Payable_Alive(status) == status \notin {"cancelled", "declined"}

-----------------------------------------------------------------------------
(* Mongoose: schema validation, hooks, and what save() writes *)

\* bookingSchema: seatsBooked required, min 1, max 4; status enum; totalAmount
\* required, min 0.  A constructor argument the schema does not declare is
\* dropped, so a document built without seatsBooked has no such field.
BookingValid(b) ==
    /\ "seatsBooked" \in DOMAIN b
    /\ b.seatsBooked >= 1
    /\ b.seatsBooked <= SeatsBookedMax
    /\ b.status \in {"pending", "accepted", "declined", "completed", "cancelled"}
    /\ "totalAmount" \in DOMAIN b
    /\ b.totalAmount >= 0

\* bookingSchema.index({rideId, passengerId}, {unique: true}): an insert whose
\* (ride, passenger) pair is already in the collection, in any status, fails.
BookingIndexFree(passenger) ==
    \A b \in DOMAIN bookings : bookings[b].passenger # passenger

\* rideSchema (first schema): availableSeats min 0 max 8, totalSeats min 1
\* max 8, status enum, pricePerSeat min 0.
PathValid(f, v) ==
    CASE f = "availableSeats" -> v >= 0 /\ v <= RideSeatsMax
      [] f = "totalSeats" -> v >= 1 /\ v <= RideSeatsMax
      [] f = "status" -> v \in {"active", "completed", "cancelled"}
      [] f = "pricePerSeat" -> v >= 0
      [] OTHER -> TRUE

\* The paths save() finds modified: those whose value is no longer the loaded one.
Modified(loaded, changed) == {f \in DOMAIN changed : changed[f] # loaded[f]}

\* rideSchema.pre('save'): the save is refused when the document in memory has
\* more available seats than total seats.
PreSaveOk(d) == ~(d.availableSeats > d.totalSeats)

\* departureDate: required, with validator date >= today (midnight), which
\* save() runs on every save.  No handler modelled here assigns the path, so
\* the date validated is the stored one, held as what it is against the clock
\* at the time of the save: still "upcoming", or "past".
DepartureDateValid == "departureDate" \in DOMAIN ride => ride.departureDate = "upcoming"

\* document.save() validates the modified paths and the required ones, and
\* runs the pre-save hook.
RideSaveOk(loaded, changed) ==
    /\ \A f \in Modified(loaded, changed) : PathValid(f, changed[f])
    /\ DepartureDateValid
    /\ PreSaveOk(changed)

\* document.save() then sends a $set of the modified paths; every other path
\* keeps what the store holds now.
SaveModified(stored, loaded, changed) ==
    [f \in DOMAIN stored |->
        IF f \in Modified(loaded, changed) THEN changed[f] ELSE stored[f]]

SetStatus(b, status) == [bookings EXCEPT ![b].status = status]

-----------------------------------------------------------------------------
(* routes/bookings.js  POST /  (createBooking) *)

\* Ride.findById, then the checks made on the loaded ride; the body's
\* seatsBooked is one of counts.
CreateBooking_ReadSeats(s, counts) ==
    /\ deployment = "clerk" /\ Free(s) /\ RoomForBooking
    /\ \E user \in Users, seats \in counts :
         LET r == Request("createBooking", user, 0, seats)
         IN /\ Arrive(r)
            /\ IF ride.driver = user
                 THEN Finish(s, r, "self_booking")
               ELSE IF ride.availableSeats < seats
                 THEN Finish(s, r, "insufficient")
               ELSE Continue(s, [r EXCEPT !.pc = "findExisting",
                                          !.doc = Loaded({"driver", "pricePerSeat"})])
    /\ UNCHANGED <<deployment, ioReady, payments, ride, bookings, notifications>>

CreateBooking_ReadRide(s) == CreateBooking_ReadSeats(s, 1..MaxSeatsBooked)

\* A request for any seat count a ride can have.
CreateBooking_ReadRideAny(s) == CreateBooking_ReadSeats(s, 1..RideSeatsMax)

\* Booking.findOne({rideId, passengerId, status: {$nin: [cancelled, declined]}})
CreateBooking_FindExisting(s) ==
    /\ reqs[s].op = "createBooking" /\ reqs[s].pc = "findExisting"
    /\ IF \E b \in ActiveIds : bookings[b].passenger = reqs[s].user
         THEN Finish(s, reqs[s], "duplicate")
         ELSE Continue(s, [reqs[s] EXCEPT !.pc = "save"])
    /\ UNCHANGED <<deployment, ioReady, payments, ride, bookings, notifications, hist>>

NewBooking(passenger, seats, price) ==
    [passenger |-> passenger, seatsBooked |-> seats, status |-> "pending",
     totalAmount |-> price * seats, paymentStatus |-> "pending",
     mpesaTransactionId |-> 0, mpesaReceiptNumber |-> 0]

\* booking.save(): validation, then the insert under the unique index.
CreateBooking_Save(s) ==
    /\ reqs[s].op = "createBooking" /\ reqs[s].pc = "save"
    /\ LET r == reqs[s]
           b == NewBooking(r.user, r.seats, r.doc.pricePerSeat)
       IN IF BookingValid(b) /\ BookingIndexFree(b.passenger)
            THEN /\ bookings' = Append(bookings, b)
                 /\ Continue(s, [r EXCEPT !.pc = "notify", !.bid = Len(bookings) + 1])
            ELSE /\ Finish(s, r, "server_error")
                 /\ UNCHANGED bookings
    /\ UNCHANGED <<deployment, ioReady, payments, ride, notifications, hist>>

\* createBookingRequestNotification(ride.driverId._id, ...), then 201.
CreateBooking_Notify(s) ==
    /\ reqs[s].op = "createBooking" /\ reqs[s].pc = "notify"
    /\ notifications' =
         AddNote(Note(reqs[s].doc.driver, "booking_request", "New Booking Request"))
    /\ Finish(s, reqs[s], "ok")
    /\ UNCHANGED <<deployment, ioReady, payments, ride, bookings, hist>>

-----------------------------------------------------------------------------
(* routes/bookings.js  PUT /:bookingId/accept *)

SeatPaths == {"availableSeats", "totalSeats"}

\* The status check of accept and of decline.
IsPending(status) == status = "pending"

\* Booking.findById(...).populate('rideId'), then the checks.
AcceptBooking_Read(s) ==
    /\ deployment = "clerk" /\ Free(s)
    /\ \E user \in Users, b \in BookingIds :
         LET r == Request("acceptBooking", user, b, 0)
         IN /\ Arrive(r)
            /\ IF b \notin DOMAIN bookings
                 THEN Finish(s, r, "not_found")
               ELSE IF ride.driver # user
                 THEN Finish(s, r, "unauthorized")
               ELSE IF ~IsPending(bookings[b].status)
                 THEN Finish(s, r, "invalid_state")
               ELSE IF ride.availableSeats < bookings[b].seatsBooked
                 THEN Finish(s, r, "insufficient")
               ELSE Continue(s, [r EXCEPT !.pc = "saveBooking", !.doc = Loaded(SeatPaths)])
    /\ UNCHANGED <<deployment, ioReady, payments, ride, bookings, notifications>>

\* booking.status = 'accepted'; await booking.save()
AcceptBooking_SaveBooking(s) ==
    /\ reqs[s].op = "acceptBooking" /\ reqs[s].pc = "saveBooking"
    /\ bookings' = SetStatus(reqs[s].bid, "accepted")
    /\ Continue(s, [reqs[s] EXCEPT !.pc = "saveRide"])
    /\ hist' = [hist EXCEPT !.accepted = @ \/ reqs[s].bid = 1]
    /\ UNCHANGED <<deployment, ioReady, payments, ride, notifications>>

\* The ride document the accept handler saves.
AcceptedRide(doc, seats) ==
    [doc EXCEPT !.availableSeats = doc.availableSeats - seats]

\* booking.rideId.availableSeats -= booking.seatsBooked; await save().  The
\* next statement reads User, which routes/bookings.js never imports: the
\* ReferenceError lands in the catch and the reply is 500 in every case.
AcceptBooking_SaveRide(s) ==
    /\ reqs[s].op = "acceptBooking" /\ reqs[s].pc = "saveRide"
    /\ LET d == AcceptedRide(reqs[s].doc, bookings[reqs[s].bid].seatsBooked)
       IN ride' = IF RideSaveOk(reqs[s].doc, d)
                    THEN SaveModified(ride, reqs[s].doc, d)
                    ELSE ride
    /\ Finish(s, reqs[s], "server_error")
    /\ UNCHANGED <<deployment, ioReady, payments, bookings, notifications, hist>>

-----------------------------------------------------------------------------
(* routes/bookings.js  PUT /:bookingId/decline *)

DeclineBooking_Read(s) ==
    /\ deployment = "clerk" /\ Free(s)
    /\ \E user \in Users, b \in BookingIds :
         LET r == Request("declineBooking", user, b, 0)
         IN /\ Arrive(r)
            /\ IF b \notin DOMAIN bookings
                 THEN Finish(s, r, "not_found")
               ELSE IF ride.driver # user
                 THEN Finish(s, r, "unauthorized")
               ELSE IF ~IsPending(bookings[b].status)
                 THEN Finish(s, r, "invalid_state")
               ELSE Continue(s, [r EXCEPT !.pc = "saveBooking"])
    /\ UNCHANGED <<deployment, ioReady, payments, ride, bookings, notifications>>

\* booking.status = 'declined'; await booking.save()
DeclineBooking_SaveBooking(s) ==
    /\ reqs[s].op = "declineBooking" /\ reqs[s].pc = "saveBooking"
    /\ bookings' = SetStatus(reqs[s].bid, "declined")
    /\ Continue(s, [reqs[s] EXCEPT !.pc = "notify"])
    /\ UNCHANGED <<deployment, ioReady, payments, ride, notifications, hist>>

\* createBookingDeclinedNotification(booking.passengerId._id, ...), then 200.
DeclineBooking_Notify(s) ==
    /\ reqs[s].op = "declineBooking" /\ reqs[s].pc = "notify"
    /\ notifications' =
         AddNote(Note(bookings[reqs[s].bid].passenger, "booking_declined",
                      "Booking Declined"))
    /\ Finish(s, reqs[s], "ok")
    /\ UNCHANGED <<deployment, ioReady, payments, ride, bookings, hist>>

-----------------------------------------------------------------------------
(* routes/bookings.js  PUT /:bookingId/cancel  (by the passenger) *)

\* Whether the cancel handler goes on to give the seats back.
RestoresSeats(previousStatus) == previousStatus = "accepted"

\* The status check of cancel.
Cancellable(status) == status # "cancelled"

\* booking.passengerId.equals(req.clerkUser._id)
IsPassenger(booking, user) == booking.passenger = user

CancelBooking_Read(s) ==
    /\ deployment = "clerk" /\ Free(s)
    /\ \E user \in Users, b \in BookingIds :
         LET r == Request("cancelBooking", user, b, 0)
         IN /\ Arrive(r)
            /\ IF b \notin DOMAIN bookings
                 THEN Finish(s, r, "not_found")
               ELSE IF ~IsPassenger(bookings[b], user)
                 THEN Finish(s, r, "unauthorized")
               ELSE IF ~Cancellable(bookings[b].status)
                 THEN Finish(s, r, "invalid_state")
               ELSE Continue(s, [r EXCEPT !.pc = "saveBooking",
                                          !.prev = bookings[b].status,
                                          !.doc = IF RestoresSeats(bookings[b].status)
                                                    THEN Loaded(SeatPaths)
                                                    ELSE NoDoc])
    /\ UNCHANGED <<deployment, ioReady, payments, ride, bookings, notifications>>

\* booking.status = 'cancelled'; await booking.save()
CancelBooking_SaveBooking(s) ==
    /\ reqs[s].op = "cancelBooking" /\ reqs[s].pc = "saveBooking"
    /\ bookings' = SetStatus(reqs[s].bid, "cancelled")
    /\ IF RestoresSeats(reqs[s].prev)
         THEN Continue(s, [reqs[s] EXCEPT !.pc = "saveRide", !.prev = "none"])
         ELSE Finish(s, reqs[s], "ok")
    /\ UNCHANGED <<deployment, ioReady, payments, ride, notifications, hist>>

\* The ride document the cancel handler saves.
RestoredRide(doc, seats) ==
    [doc EXCEPT !.availableSeats = doc.availableSeats + seats]

\* booking.rideId.availableSeats += booking.seatsBooked; await save()
CancelBooking_SaveRide(s) ==
    /\ reqs[s].op = "cancelBooking" /\ reqs[s].pc = "saveRide"
    /\ LET d == RestoredRide(reqs[s].doc, bookings[reqs[s].bid].seatsBooked)
       IN IF RideSaveOk(reqs[s].doc, d)
            THEN /\ ride' = SaveModified(ride, reqs[s].doc, d)
                 /\ Finish(s, reqs[s], "ok")
            ELSE /\ UNCHANGED ride
                 /\ Finish(s, reqs[s], "server_error")
    /\ UNCHANGED <<deployment, ioReady, payments, bookings, notifications, hist>>

-----------------------------------------------------------------------------
(* routes/rides.js  POST /:rideId/book *)

BookRide_ReadRide(s) ==
    /\ deployment = "clerk" /\ Free(s) /\ RoomForBooking
    /\ \E user \in Users, seats \in 1..MaxSeatsBooked :
         LET r == Request("bookRide", user, 0, seats)
         IN /\ Arrive(r)
            /\ IF ride.driver = user
                 THEN Finish(s, r, "self_booking")
               ELSE IF ride.status # "active"
                 THEN Finish(s, r, "not_active")
               ELSE IF ride.availableSeats < seats
                 THEN Finish(s, r, "insufficient")
               ELSE Continue(s, [r EXCEPT !.pc = "findExisting",
                                          !.doc = Loaded(SeatPaths \cup
                                                   {"driver", "pricePerSeat", "bookings"})])
    /\ UNCHANGED <<deployment, ioReady, payments, ride, bookings, notifications>>

\* Booking.findOne({rideId, passengerId, status: {$in: ['pending', 'confirmed']}})
BookRide_FindExisting(s) ==
    /\ reqs[s].op = "bookRide" /\ reqs[s].pc = "findExisting"
    /\ IF \E b \in DOMAIN bookings :
             /\ bookings[b].passenger = reqs[s].user
             /\ bookings[b].status \in {"pending", "confirmed"}
         THEN Finish(s, reqs[s], "duplicate")
         ELSE Continue(s, [reqs[s] EXCEPT !.pc = "save"])
    /\ UNCHANGED <<deployment, ioReady, payments, ride, bookings, notifications, hist>>

\* new Booking({rideId, passengerId, driverId, seats, totalAmount, ...,
\* status: 'pending'}): the schema has no seats path, so the seat count is
\* dropped and the document carries no seatsBooked.
NewRideBooking(passenger, seats, price) ==
    [passenger |-> passenger, status |-> "pending", totalAmount |-> price * seats,
     paymentStatus |-> "pending", mpesaTransactionId |-> 0, mpesaReceiptNumber |-> 0]

\* booking.save(); then ride.availableSeats -= seats, ride.bookings.push(id),
\* ride.save(); then createNotification for the driver and 201.
BookRide_Write(s) ==
    /\ reqs[s].op = "bookRide" /\ reqs[s].pc \in {"save", "saveRide", "notify"}
    /\ LET r == reqs[s]
           b == NewRideBooking(r.user, r.seats, r.doc.pricePerSeat)
           d == [r.doc EXCEPT !.availableSeats = r.doc.availableSeats - r.seats,
                              !.bookings = Append(r.doc.bookings, r.bid)]
       IN CASE r.pc = "save" ->
                 IF BookingValid(b) /\ BookingIndexFree(b.passenger)
                   THEN /\ bookings' = Append(bookings, b)
                        /\ Continue(s, [r EXCEPT !.pc = "saveRide",
                                                 !.bid = Len(bookings) + 1])
                        /\ UNCHANGED <<ride, notifications>>
                   ELSE /\ Finish(s, r, "server_error")
                        /\ UNCHANGED <<ride, bookings, notifications>>
            [] r.pc = "saveRide" ->
                 IF RideSaveOk(r.doc, d)
                   THEN /\ ride' = SaveModified(ride, r.doc, d)
                        /\ Continue(s, [r EXCEPT !.pc = "notify"])
                        /\ UNCHANGED <<bookings, notifications>>
                   ELSE /\ Finish(s, r, "server_error")
                        /\ UNCHANGED <<ride, bookings, notifications>>
            [] r.pc = "notify" ->
                 /\ notifications' =
                      AddNote(Note(r.doc.driver, "new_booking", "New Booking Request"))
                 /\ Finish(s, r, "ok")
                 /\ UNCHANGED <<ride, bookings>>
    /\ UNCHANGED <<deployment, ioReady, payments, hist>>

-----------------------------------------------------------------------------
(* routes/rides.js  PUT /:rideId  (update ride) *)

\* Request bodies of the ride update: the validators let totalSeats through
\* as 1..8 and pricePerSeat from 0 up, and do not look at availableSeats.
Bodies ==
    {[totalSeats |-> t] : t \in 1..MaxSeats}
      \cup {[availableSeats |-> a] : a \in 0..MaxSeats}
      \cup {[pricePerSeat |-> p] : p \in 1..MaxFare}

\* Request bodies that assign the ride's bookings array: the handler copies
\* every key of the body onto the document.
BookingBodies == {[bookings |-> <<b>>] : b \in BookingIds}

\* Ride.findOne({_id, driverId: req.clerkUser._id}), then the bookings check.
UpdateRide_ReadBody(s, bodies) ==
    /\ deployment = "clerk" /\ Free(s)
    /\ \E user \in Users, body \in bodies :
         LET r == [Request("updateRide", user, 0, 0) EXCEPT !.body = body]
         IN /\ Arrive(r)
            /\ IF ride.driver # user
                 THEN Finish(s, r, "not_found")
               ELSE IF Len(ride.bookings) > 0 /\ "totalSeats" \in DOMAIN body
                 THEN Finish(s, r, "has_bookings")
               ELSE Continue(s, [r EXCEPT !.pc = "save",
                                          !.doc = Loaded(SeatPaths \cup {"bookings"}
                                                           \cup DOMAIN body)])
    /\ UNCHANGED <<deployment, ioReady, payments, ride, bookings, notifications>>

UpdateRide_Read(s) == UpdateRide_ReadBody(s, Bodies)

UpdateRide_ReadAny(s) == UpdateRide_ReadBody(s, Bodies \cup BookingBodies)

\* Object.keys(req.body).forEach(key => ride[key] = req.body[key]); then, when
\* the body has totalSeats, availableSeats = totalSeats - ride.bookings.length.
UpdatedRide(doc, body) ==
    LET assigned == [f \in DOMAIN doc |-> IF f \in DOMAIN body THEN body[f] ELSE doc[f]]
    IN IF "totalSeats" \in DOMAIN body
         THEN [assigned EXCEPT !.availableSeats = body.totalSeats - Len(doc.bookings)]
         ELSE assigned

\* await ride.save()
UpdateRide_Save(s) ==
    /\ reqs[s].op = "updateRide" /\ reqs[s].pc = "save"
    /\ LET d == UpdatedRide(reqs[s].doc, reqs[s].body)
       IN IF RideSaveOk(reqs[s].doc, d)
            THEN /\ ride' = SaveModified(ride, reqs[s].doc, d)
                 /\ Finish(s, reqs[s], "ok")
            ELSE /\ UNCHANGED ride
                 /\ Finish(s, reqs[s], "server_error")
    /\ UNCHANGED <<deployment, ioReady, payments, bookings, notifications, hist>>

-----------------------------------------------------------------------------
(* routes/rides.js  DELETE /:rideId  (cancel ride) *)

\* populate('bookings') replaces the ids by the documents found; an id with no
\* document is left out.
Populated(ids) == SelectSeq(ids, LAMBDA b : b \in DOMAIN bookings)

\* Ride.findOne({_id, driverId}).populate('bookings')
CancelRide_Read(s) ==
    /\ deployment = "clerk" /\ Free(s)
    /\ \E user \in Users :
         LET r == Request("cancelRide", user, 0, 0)
         IN /\ Arrive(r)
            /\ IF ride.driver # user
                 THEN Finish(s, r, "not_found")
                 ELSE Continue(s, [r EXCEPT !.pc = "cascade",
                                            !.doc = Loaded(SeatPaths \cup {"status"}),
                                            !.todo = Populated(ride.bookings)])
    /\ UNCHANGED <<deployment, ioReady, payments, ride, bookings, notifications>>

\* for (const booking of ride.bookings): createNotification for its passenger
\* and Booking.findByIdAndUpdate(booking._id, {status: 'cancelled'}); after the
\* loop ride.status = 'cancelled' and ride.save().
CancelRide_Cascade(s) ==
    /\ reqs[s].op = "cancelRide" /\ reqs[s].pc = "cascade"
    /\ LET r == reqs[s]
           d == [r.doc EXCEPT !.status = "cancelled"]
       IN IF r.todo # <<>>
            THEN /\ notifications' =
                      AddNote(Note(bookings[Head(r.todo)].passenger, "ride_cancelled",
                                   "Ride Cancelled"))
                 /\ bookings' = SetStatus(Head(r.todo), "cancelled")
                 /\ Continue(s, [r EXCEPT !.todo = Tail(r.todo)])
                 /\ UNCHANGED ride
          ELSE IF RideSaveOk(r.doc, d)
            THEN /\ ride' = SaveModified(ride, r.doc, d)
                 /\ Finish(s, r, "ok")
                 /\ UNCHANGED <<bookings, notifications>>
          ELSE /\ Finish(s, r, "server_error")
               /\ UNCHANGED <<ride, bookings, notifications>>
    /\ UNCHANGED <<deployment, ioReady, payments, hist>>

-----------------------------------------------------------------------------
(* routes/ride.js  POST /book/:rideId  (instant booking) *)

\* The Booking model routes/ride.js imports (fields ride, passenger,
\* seatsBooked, status booked/cancelled) is not among the sources; its
\* uniqueness constraint is the one the specification states: one active
\* booking per (ride, passenger).
InstantIndexFree(passenger) ==
    \A b \in DOMAIN bookings :
        ~(bookings[b].passenger = passenger /\ bookings[b].status = "booked")

\* Booking.findOne({ride, passenger, status: "booked"})
InstantBook_FindExisting(s) ==
    /\ deployment = "instant" /\ Free(s) /\ RoomForBooking
    /\ \E user \in Users, seats \in 1..MaxSeatsBooked :
         LET r == Request("instantBook", user, 0, seats)
         IN /\ Arrive(r)
            /\ IF \E b \in DOMAIN bookings :
                     bookings[b].passenger = user /\ bookings[b].status = "booked"
                 THEN Finish(s, r, "duplicate")
                 ELSE Continue(s, [r EXCEPT !.pc = "readRide"])
    /\ UNCHANGED <<deployment, ioReady, payments, ride, bookings, notifications>>

\* Ride.findById, then the status check.
InstantBook_ReadRide(s) ==
    /\ reqs[s].op = "instantBook" /\ reqs[s].pc = "readRide"
    /\ IF ride.status # "active"
         THEN Finish(s, reqs[s], "not_active")
         ELSE Continue(s, [reqs[s] EXCEPT !.pc = "reserve"])
    /\ UNCHANGED <<deployment, ioReady, payments, ride, bookings, notifications, hist>>

\* The filter of the conditional update.
CanReserve(r, seats) == r.status = "active" /\ r.availableSeats >= seats

\* Ride.findOneAndUpdate({_id, status: "active", availableSeats: {$gte: n}},
\*                       {$inc: {availableSeats: -n}}, {new: true})
InstantBook_Reserve(s) ==
    /\ reqs[s].op = "instantBook" /\ reqs[s].pc = "reserve"
    /\ IF CanReserve(ride, reqs[s].seats)
         THEN /\ ride' = [ride EXCEPT !.availableSeats = @ - reqs[s].seats]
              /\ Continue(s, [reqs[s] EXCEPT !.pc = "create",
                                             !.doc = Loaded({"driver"})])
         ELSE /\ UNCHANGED ride
              /\ Finish(s, reqs[s], "unavailable")
    /\ UNCHANGED <<deployment, ioReady, payments, bookings, notifications, hist>>

\* Booking.create({ride, passenger, seatsBooked, status: "booked"})
InstantBook_Create(s) ==
    /\ reqs[s].op = "instantBook" /\ reqs[s].pc = "create"
    /\ IF InstantIndexFree(reqs[s].user)
         THEN /\ bookings' = Append(bookings, [passenger |-> reqs[s].user,
                                               seatsBooked |-> reqs[s].seats,
                                               status |-> "booked"])
              /\ Continue(s, [reqs[s] EXCEPT !.pc = "noteDriver",
                                             !.bid = Len(bookings) + 1])
         ELSE /\ UNCHANGED bookings
              /\ Finish(s, reqs[s], "server_error")
    /\ UNCHANGED <<deployment, ioReady, payments, ride, notifications, hist>>

\* Notification.create for the driver, then getIO(), which throws while the
\* socket server is not initialised.
InstantBook_NoteDriver(s) ==
    /\ reqs[s].op = "instantBook" /\ reqs[s].pc = "noteDriver"
    /\ notifications' = AddNote(Note(reqs[s].doc.driver, "booking", "New booking"))
    /\ IF ioReady
         THEN Continue(s, [reqs[s] EXCEPT !.pc = "notePassenger"])
         ELSE Finish(s, reqs[s], "server_error")
    /\ UNCHANGED <<deployment, ioReady, payments, ride, bookings, hist>>

\* Notification.create for the passenger, then 201.
InstantBook_NotePassenger(s) ==
    /\ reqs[s].op = "instantBook" /\ reqs[s].pc = "notePassenger"
    /\ notifications' = AddNote(Note(reqs[s].user, "booking", "Booking confirmed"))
    /\ Finish(s, reqs[s], "ok")
    /\ UNCHANGED <<deployment, ioReady, payments, ride, bookings, hist>>

-----------------------------------------------------------------------------
(* routes/ride.js  POST /cancel/:bookingId *)

\* Booking.findById(...).populate("ride"), then the checks.
InstantCancel_Read(s) ==
    /\ deployment = "instant" /\ Free(s)
    /\ \E user \in Users, b \in BookingIds :
         LET r == Request("instantCancel", user, b, 0)
         IN /\ Arrive(r)
            /\ IF b \notin DOMAIN bookings \/ bookings[b].status # "booked"
                 THEN Finish(s, r, "not_found")
               ELSE IF bookings[b].passenger # user
                 THEN Finish(s, r, "unauthorized")
               ELSE Continue(s, [r EXCEPT !.pc = "release",
                                          !.doc = Loaded({"driver"})])
    /\ UNCHANGED <<deployment, ioReady, payments, ride, bookings, notifications>>

\* $inc: {availableSeats: booking.seatsBooked}
ReleasedSeats(available, seats) == available + seats

\* Ride.findByIdAndUpdate(booking.ride._id, {$inc: ...})
InstantCancel_Release(s) ==
    /\ reqs[s].op = "instantCancel" /\ reqs[s].pc = "release"
    /\ ride' = [ride EXCEPT !.availableSeats =
                               ReleasedSeats(@, bookings[reqs[s].bid].seatsBooked)]
    /\ Continue(s, [reqs[s] EXCEPT !.pc = "saveBooking"])
    /\ UNCHANGED <<deployment, ioReady, payments, bookings, notifications, hist>>

\* booking.status = "cancelled"; await booking.save()
InstantCancel_SaveBooking(s) ==
    /\ reqs[s].op = "instantCancel" /\ reqs[s].pc = "saveBooking"
    /\ bookings' = SetStatus(reqs[s].bid, "cancelled")
    /\ Continue(s, [reqs[s] EXCEPT !.pc = "noteDriver"])
    /\ UNCHANGED <<deployment, ioReady, payments, ride, notifications, hist>>

InstantCancel_NoteDriver(s) ==
    /\ reqs[s].op = "instantCancel" /\ reqs[s].pc = "noteDriver"
    /\ notifications' =
         AddNote(Note(reqs[s].doc.driver, "cancellation", "Booking cancelled"))
    /\ IF ioReady
         THEN Continue(s, [reqs[s] EXCEPT !.pc = "notePassenger"])
         ELSE Finish(s, reqs[s], "server_error")
    /\ UNCHANGED <<deployment, ioReady, payments, ride, bookings, hist>>

InstantCancel_NotePassenger(s) ==
    /\ reqs[s].op = "instantCancel" /\ reqs[s].pc = "notePassenger"
    /\ notifications' = AddNote(Note(reqs[s].user, "cancellation", "Booking cancelled"))
    /\ Finish(s, reqs[s], "ok")
    /\ UNCHANGED <<deployment, ioReady, payments, ride, bookings, hist>>

-----------------------------------------------------------------------------
(* routes/ride.js  PUT :id/cancel  (cancel ride) *)

\* rideSchema (second schema): status enum ["active", "completed", "cancelled"].
InstantRideValid(d) == d.status \in {"active", "completed", "cancelled"}

InstantCancelRide_Read(s) ==
    /\ deployment = "instant" /\ Free(s)
    /\ \E user \in Users :
         LET r == Request("instantCancelRide", user, 0, 0)
         IN /\ Arrive(r)
            /\ IF ride.driver # user
                 THEN Finish(s, r, "unauthorized")
                 ELSE Continue(s, [r EXCEPT !.pc = "save",
                                            !.doc = Loaded({"driver", "status"})])
    /\ UNCHANGED <<deployment, ioReady, payments, ride, bookings, notifications>>

\* The booked bookings, as Booking.find({ride, status: "booked"}) returns them.
RECURSIVE BookedIds(_)
BookedIds(n) ==
    IF n = 0 THEN <<>>
    ELSE IF bookings[n].status = "booked"
      THEN Append(BookedIds(n - 1), n)
      ELSE BookedIds(n - 1)

\* ride.status = "canceled"; await ride.save(); then the driver's notification
\* and getIO(); then, for each booked booking, status "cancelled", save, and a
\* notification for its passenger.
InstantCancelRide_Write(s) ==
    /\ reqs[s].op = "instantCancelRide" /\ reqs[s].pc \in {"save", "noteDriver", "cascade"}
    /\ LET r == reqs[s]
           d == [r.doc EXCEPT !.status = "canceled"]
       IN CASE r.pc = "save" ->
                 IF InstantRideValid(d)
                   THEN /\ ride' = SaveModified(ride, r.doc, d)
                        /\ Continue(s, [r EXCEPT !.pc = "noteDriver"])
                        /\ UNCHANGED <<bookings, notifications>>
                   ELSE /\ Finish(s, r, "server_error")
                        /\ UNCHANGED <<ride, bookings, notifications>>
            [] r.pc = "noteDriver" ->
                 /\ notifications' =
                      AddNote(Note(r.doc.driver, "cancellation", "Ride cancelled"))
                 /\ IF ioReady
                      THEN Continue(s, [r EXCEPT !.pc = "cascade",
                                                 !.todo = BookedIds(Len(bookings))])
                      ELSE Finish(s, r, "server_error")
                 /\ UNCHANGED <<ride, bookings>>
            [] r.pc = "cascade" ->
                 IF r.todo # <<>>
                   THEN /\ bookings' = SetStatus(Head(r.todo), "cancelled")
                        /\ notifications' =
                             AddNote(Note(bookings[Head(r.todo)].passenger,
                                          "cancellation", "Ride cancelled"))
                        /\ Continue(s, [r EXCEPT !.todo = Tail(r.todo)])
                        /\ UNCHANGED ride
                   ELSE /\ Finish(s, r, "ok")
                        /\ UNCHANGED <<ride, bookings, notifications>>
    /\ UNCHANGED <<deployment, ioReady, payments, hist>>

-----------------------------------------------------------------------------
(* routes/payments.js  POST /  (create payment) *)

Paying == {t \in Slots : InFlight(t) /\ reqs[t].op = "createPayment"}

\* The model stops admitting payment requests once MaxPayments documents
\* exist or are being created.
RoomForPayment == Len(payments) + Cardinality(Paying) < MaxPayments

\* new Payment({bookingId, payerId, receiverId, amount, ..., status: 'processing'})
NewPayment(b, payer, amount) ==
    [booking |-> b, payer |-> payer, amount |-> amount, status |-> "processing",
     failureReason |-> "none", mpesaTransactionId |-> 0, mpesaReceiptNumber |-> 0]

\* paymentSchema: amount required, min 0; status enum.
PaymentValid(p) ==
    /\ p.amount >= 0
    /\ p.status \in {"pending", "processing", "succeeded", "failed", "refunded"}

\* booking.status !== 'accepted' is refused.
Payable(status) == status = "accepted"

\* The body validators, then Booking.findById(bookingId) and the checks on it.
CreatePayment_Read(s) ==
    /\ deployment = "clerk" /\ Free(s) /\ RoomForPayment
    /\ \E user \in Users, b \in BookingIds, phoneOk \in BOOLEAN :
         LET r == Request("createPayment", user, b, 0)
         IN /\ Arrive(r)
            /\ IF ~phoneOk
                 THEN Finish(s, r, "validation")
               ELSE IF b \notin DOMAIN bookings
                 THEN Finish(s, r, "not_found")
               ELSE IF bookings[b].passenger # user
                 THEN Finish(s, r, "unauthorized")
               ELSE IF ~Payable(bookings[b].status)
                 THEN Finish(s, r, "invalid_state")
               ELSE IF bookings[b].paymentStatus = "paid"
                 THEN Finish(s, r, "already_paid")
               ELSE Continue(s, [r EXCEPT !.pc = "savePayment",
                                          !.doc = [amount |-> bookings[b].totalAmount,
                                                   payment |-> 0]])
    /\ UNCHANGED <<deployment, ioReady, payments, ride, bookings, notifications>>

\* await payment.save(): the record enters the collection as processing.
CreatePayment_SavePayment(s) ==
    /\ reqs[s].op = "createPayment" /\ reqs[s].pc = "savePayment"
    /\ LET r == reqs[s]
           p == NewPayment(r.bid, r.user, r.doc.amount)
       IN IF PaymentValid(p)
            THEN /\ payments' = Append(payments, p)
                 /\ Continue(s, [r EXCEPT !.pc = "gateway",
                                          !.doc.payment = Len(payments) + 1])
            ELSE /\ UNCHANGED payments
                 /\ Finish(s, r, "server_error")
    /\ UNCHANGED <<deployment, ioReady, ride, bookings, notifications, hist>>

\* await simulateMpesaSTKPush(...): it resolves with the identifiers of the
\* transaction or throws; the handler goes on in the try or in its catch.
CreatePayment_Gateway(s) ==
    /\ reqs[s].op = "createPayment" /\ reqs[s].pc = "gateway"
    /\ \E success \in BOOLEAN :
         Continue(s, [reqs[s] EXCEPT !.pc = IF success THEN "saveSucceeded"
                                                       ELSE "saveFailed"])
    /\ UNCHANGED <<deployment, ioReady, payments, ride, bookings, notifications, hist>>

\* payment.status = 'succeeded' with the M-Pesa identifiers; payment.save()
CreatePayment_SaveSucceeded(s) ==
    /\ reqs[s].op = "createPayment" /\ reqs[s].pc = "saveSucceeded"
    /\ LET pid == reqs[s].doc.payment
       IN payments' = [payments EXCEPT ![pid].status = "succeeded",
                                       ![pid].mpesaTransactionId = pid,
                                       ![pid].mpesaReceiptNumber = pid]
    /\ Continue(s, [reqs[s] EXCEPT !.pc = "saveBooking"])
    /\ UNCHANGED <<deployment, ioReady, ride, bookings, notifications, hist>>

\* The booking with the payment's outcome on it, as the handler saves it: the
\* three paths it assigned.
PaidBooking(booking, pid) ==
    [booking EXCEPT !.paymentStatus = "paid",
                    !.mpesaTransactionId = pid,
                    !.mpesaReceiptNumber = pid]

\* booking.paymentStatus = 'paid' with the identifiers; booking.save()
CreatePayment_SaveBooking(s) ==
    /\ reqs[s].op = "createPayment" /\ reqs[s].pc = "saveBooking"
    /\ bookings' = [bookings EXCEPT
                      ![reqs[s].bid] = PaidBooking(@, reqs[s].doc.payment)]
    /\ Continue(s, [reqs[s] EXCEPT !.pc = "notify"])
    /\ UNCHANGED <<deployment, ioReady, payments, ride, notifications, hist>>

\* new Notification({userId: booking.rideId.driverId, type: 'payment', ...}),
\* notification.save(), req.io emit, res.json.
CreatePayment_Notify(s) ==
    /\ reqs[s].op = "createPayment" /\ reqs[s].pc = "notify"
    /\ notifications' = AddNote(Note(ride.driver, "payment", "Payment Received"))
    /\ Finish(s, reqs[s], "ok")
    /\ UNCHANGED <<deployment, ioReady, payments, ride, bookings, hist>>

\* catch (mpesaError): payment.status = 'failed', failureReason; payment.save(); 400.
CreatePayment_SaveFailed(s) ==
    /\ reqs[s].op = "createPayment" /\ reqs[s].pc = "saveFailed"
    /\ LET pid == reqs[s].doc.payment
       IN payments' = [payments EXCEPT ![pid].status = "failed",
                                       ![pid].failureReason = "mpesa"]
    /\ Finish(s, reqs[s], "payment_failed")
    /\ UNCHANGED <<deployment, ioReady, ride, bookings, notifications, hist>>

-----------------------------------------------------------------------------
(* config/socket.js: the module-level handle, initSocket, getIO *)

\* Servers constructed, and calls of initSocket made, when the process has
\* started: one of each where the handle is set, none where it is not.
Started(ready) == IF ready THEN 1 ELSE 0

\* if (io) ...
HasHandle == ioReady

\* The handle io holds: the Server constructed last.
Handle == IF ioReady THEN hist.servers ELSE 0

\* initSocket(server): if (io) return io; io = new Server(...); return io.
InitSocket ==
    /\ hist.inits < MaxInits
    /\ IF HasHandle
         THEN /\ hist' = [hist EXCEPT !.inits = @ + 1]
              /\ reply' = [op |-> "initSocket", user |-> 0, bid |-> 0, res |-> "ok",
                           io |-> Handle]
              /\ UNCHANGED ioReady
         ELSE /\ ioReady' = TRUE
              /\ hist' = [hist EXCEPT !.inits = @ + 1, !.servers = @ + 1]
              /\ reply' = [op |-> "initSocket", user |-> 0, bid |-> 0, res |-> "ok",
                           io |-> hist.servers + 1]
    /\ UNCHANGED <<deployment, ride, bookings, notifications, payments, reqs>>

\* getIO(): if (!io) throw new Error("Socket.io not initialized"); return io.
GetIO ==
    /\ reply' = IF ~ioReady
                  THEN [op |-> "getIO", user |-> 0, bid |-> 0,
                        res |-> "not_initialized", io |-> 0]
                  ELSE [op |-> "getIO", user |-> 0, bid |-> 0, res |-> "ok",
                        io |-> Handle]
    /\ UNCHANGED <<deployment, ioReady, ride, bookings, notifications, payments,
                   reqs, hist>>

-----------------------------------------------------------------------------
(* The initial states: a ride just created, no bookings, no notifications *)

\* routes/rides.js POST /: availableSeats: req.body.totalSeats, status 'active'.
ClerkRide(total, price) ==
    [driver |-> Driver, status |-> "active", availableSeats |-> total,
     totalSeats |-> total, pricePerSeat |-> price, bookings |-> <<>>,
     departureDate |-> "upcoming"]

\* routes/ride.js POST /createRide: availableSeats and price from the body.
InstantRide(available, price) ==
    [driver |-> Driver, status |-> "active", availableSeats |-> available,
     price |-> price]

Init ==
    /\ deployment \in {"clerk", "instant"}
    /\ ioReady \in (IF deployment = "clerk" THEN {TRUE} ELSE BOOLEAN)
    /\ \E n \in 1..MaxSeats, p \in 1..MaxPrice :
         /\ ride = IF deployment = "clerk" THEN ClerkRide(n, p) ELSE InstantRide(n, p)
         /\ hist = [avail0 |-> n, solo |-> TRUE, arrived |-> 0, accepted |-> FALSE,
                    servers |-> Started(ioReady), inits |-> Started(ioReady)]
    /\ bookings = <<>>
    /\ notifications = EmptyBag
    /\ payments = <<>>
    /\ reqs = [s \in Slots |-> Idle]
    /\ reply = NoReply

Next ==
    \E s \in Slots :
        \/ CreateBooking_ReadRide(s)
        \/ CreateBooking_FindExisting(s)
        \/ CreateBooking_Save(s)
        \/ CreateBooking_Notify(s)
        \/ AcceptBooking_Read(s)
        \/ AcceptBooking_SaveBooking(s)
        \/ AcceptBooking_SaveRide(s)
        \/ DeclineBooking_Read(s)
        \/ DeclineBooking_SaveBooking(s)
        \/ DeclineBooking_Notify(s)
        \/ CancelBooking_Read(s)
        \/ CancelBooking_SaveBooking(s)
        \/ CancelBooking_SaveRide(s)
        \/ BookRide_ReadRide(s)
        \/ BookRide_FindExisting(s)
        \/ BookRide_Write(s)
        \/ UpdateRide_Read(s)
        \/ UpdateRide_Save(s)
        \/ CancelRide_Read(s)
        \/ CancelRide_Cascade(s)
        \/ InstantBook_FindExisting(s)
        \/ InstantBook_ReadRide(s)
        \/ InstantBook_Reserve(s)
        \/ InstantBook_Create(s)
        \/ InstantBook_NoteDriver(s)
        \/ InstantBook_NotePassenger(s)
        \/ InstantCancel_Read(s)
        \/ InstantCancel_Release(s)
        \/ InstantCancel_SaveBooking(s)
        \/ InstantCancel_NoteDriver(s)
        \/ InstantCancel_NotePassenger(s)
        \/ InstantCancelRide_Read(s)
        \/ InstantCancelRide_Write(s)

Spec == Init /\ [][Next]_vars

-----------------------------------------------------------------------------
(* Payments: the store some way into the life of a ride *)

\* A booking as the lifecycle handlers leave it before any payment.
BookingIn(passenger, status, price) ==
    [NewBooking(passenger, 1, price) EXCEPT !.status = status]

\* The ride has bookings of its first passengers, each in one of the statuses
\* the lifecycle gives, and the seats the accepted ones took are deducted.
PayInit ==
    /\ deployment = "clerk"
    /\ ioReady = TRUE
    /\ \E n \in 1..MaxSeats, p \in 1..MaxPrice, k \in 1..MaxBookings :
        \E st \in [1..k -> {"pending", "accepted", "declined", "cancelled"}] :
          LET taken == Cardinality({i \in 1..k : st[i] = "accepted"})
          IN /\ taken <= n
             /\ bookings = [i \in 1..k |-> BookingIn(i, st[i], p)]
             /\ ride = [ClerkRide(n, p) EXCEPT !.availableSeats = n - taken]
             /\ hist = [avail0 |-> n, solo |-> TRUE, arrived |-> 0,
                        accepted |-> st[1] = "accepted",
                        servers |-> Started(ioReady), inits |-> Started(ioReady)]
    /\ notifications = EmptyBag
    /\ payments = <<>>
    /\ reqs = [s \in Slots |-> Idle]
    /\ reply = NoReply

PayNext ==
    \E s \in Slots :
        \/ CreatePayment_Read(s)
        \/ CreatePayment_SavePayment(s)
        \/ CreatePayment_Gateway(s)
        \/ CreatePayment_SaveSucceeded(s)
        \/ CreatePayment_SaveBooking(s)
        \/ CreatePayment_Notify(s)
        \/ CreatePayment_SaveFailed(s)
        \/ CancelBooking_Read(s)
        \/ CancelBooking_SaveBooking(s)
        \/ CancelBooking_SaveRide(s)

PaySpec == PayInit /\ [][PayNext]_vars

\* A step of the payment handler running in slot s, after its arrival.
CreatePayment_Step(s) ==
    \/ CreatePayment_SavePayment(s)
    \/ CreatePayment_Gateway(s)
    \/ CreatePayment_SaveSucceeded(s)
    \/ CreatePayment_SaveBooking(s)
    \/ CreatePayment_Notify(s)
    \/ CreatePayment_SaveFailed(s)

\* Node runs every continuation whose awaited promise has settled, and the
\* gateway stub settles after its two seconds: a handler that can take its next
\* step takes it.
PayLiveSpec == PaySpec /\ \A s \in Slots : WF_vars(CreatePayment_Step(s))

-----------------------------------------------------------------------------
(* Settlement when the step after the booking's save can fail *)

\* notification.save() rejects, or req.io is not set: the throw is inside the
\* try whose catch (mpesaError) marks the payment failed.
CreatePayment_NotifyFailed(s) ==
    /\ reqs[s].op = "createPayment" /\ reqs[s].pc = "notify"
    /\ Continue(s, [reqs[s] EXCEPT !.pc = "saveFailed"])
    /\ UNCHANGED <<deployment, ioReady, payments, ride, bookings, notifications, hist>>

PayFaultNext ==
    \/ PayNext
    \/ \E s \in Slots : CreatePayment_NotifyFailed(s)

PayFaultSpec == PayInit /\ [][PayFaultNext]_vars

-----------------------------------------------------------------------------
(* The driver's side of a ride over time: bookings come in, the driver edits
   the ride, the departure date goes by, the driver cancels the ride *)

\* The validator compares departureDate with the start of today: midnight after
\* the departure date, the stored date no longer passes it.
DayPasses ==
    /\ deployment = "clerk"
    /\ ride.departureDate = "upcoming"
    /\ ride' = [ride EXCEPT !.departureDate = "past"]
    /\ reply' = NoReply
    /\ UNCHANGED <<deployment, ioReady, bookings, notifications, payments, reqs, hist>>

RideInit == Init /\ deployment = "clerk"

RideNext ==
    \/ DayPasses
    \/ \E s \in Slots :
        \/ CreateBooking_ReadRide(s)
        \/ CreateBooking_FindExisting(s)
        \/ CreateBooking_Save(s)
        \/ CreateBooking_Notify(s)
        \/ UpdateRide_ReadAny(s)
        \/ UpdateRide_Save(s)
        \/ CancelRide_Read(s)
        \/ CancelRide_Cascade(s)

RideSpec == RideInit /\ [][RideNext]_vars

-----------------------------------------------------------------------------
(* The notification routes: mark as read, mark all as read, delete *)

\* The filter {_id, userId: req.user._id} ({_id, user: req.user._id}).
IsRecipient(n, user) == n.user = user

\* k copies of the notification n.
Copies(n, k) == [x \in {n} |-> k]

\* What the routes answer after the store operation: the routes that publish
\* the unread count call getIO() first, which throws while the socket server
\* is not initialised.
Answered == IF deployment = "instant" /\ ~ioReady THEN "server_error" ELSE "ok"

\* Notification.findOneAndUpdate({_id, userId}, {read: true}): the id names one
\* stored notification.
MarkRead(s) ==
    /\ Free(s)
    /\ \E user \in Users, n \in BagToSet(notifications) :
         LET r == Request("markRead", user, 0, 0)
         IN /\ Arrive(r)
            /\ IF IsRecipient(n, user)
                 THEN /\ notifications' =
                           (notifications (-) Copies(n, 1))
                             (+) Copies([n EXCEPT !.read = TRUE], 1)
                      /\ Finish(s, r, Answered)
                 ELSE /\ UNCHANGED notifications
                      /\ Finish(s, r, "not_found")
    /\ UNCHANGED <<deployment, ioReady, payments, ride, bookings>>

RECURSIVE ReadAll(_, _)
ReadAll(bag, todo) ==
    IF todo = {} THEN bag
    ELSE LET n == CHOOSE x \in todo : TRUE
             k == CopiesIn(n, bag)
         IN ReadAll((bag (-) Copies(n, k)) (+) Copies([n EXCEPT !.read = TRUE], k),
                    todo \ {n})

\* Notification.updateMany({userId, read: false}, {read: true})
MarkAllRead(s) ==
    /\ Free(s)
    /\ \E user \in Users :
         LET r == Request("markAllRead", user, 0, 0)
             unread == {n \in BagToSet(notifications) : IsRecipient(n, user) /\ ~n.read}
         IN /\ Arrive(r)
            /\ notifications' = ReadAll(notifications, unread)
            /\ Finish(s, r, Answered)
    /\ UNCHANGED <<deployment, ioReady, payments, ride, bookings>>

\* Notification.findOneAndDelete({_id, userId})
DeleteNotification(s) ==
    /\ Free(s)
    /\ \E user \in Users, n \in BagToSet(notifications) :
         LET r == Request("deleteNotification", user, 0, 0)
         IN /\ Arrive(r)
            /\ IF IsRecipient(n, user)
                 THEN /\ notifications' = notifications (-) Copies(n, 1)
                      /\ Finish(s, r, Answered)
                 ELSE /\ UNCHANGED notifications
                      /\ Finish(s, r, "not_found")
    /\ UNCHANGED <<deployment, ioReady, payments, ride, bookings>>

NoteNext ==
    \E s \in Slots :
        \/ CreateBooking_ReadRide(s)
        \/ CreateBooking_FindExisting(s)
        \/ CreateBooking_Save(s)
        \/ CreateBooking_Notify(s)
        \/ DeclineBooking_Read(s)
        \/ DeclineBooking_SaveBooking(s)
        \/ DeclineBooking_Notify(s)
        \/ InstantBook_FindExisting(s)
        \/ InstantBook_ReadRide(s)
        \/ InstantBook_Reserve(s)
        \/ InstantBook_Create(s)
        \/ InstantBook_NoteDriver(s)
        \/ InstantBook_NotePassenger(s)
        \/ MarkRead(s)
        \/ MarkAllRead(s)
        \/ DeleteNotification(s)

NoteSpec == Init /\ [][NoteNext]_vars

-----------------------------------------------------------------------------
(* The socket handle under the instant booking route, which calls getIO *)

SocketInit == Init /\ deployment = "instant"

SocketNext ==
    \/ InitSocket
    \/ GetIO
    \/ \E s \in Slots :
        \/ InstantBook_FindExisting(s)
        \/ InstantBook_ReadRide(s)
        \/ InstantBook_Reserve(s)
        \/ InstantBook_Create(s)
        \/ InstantBook_NoteDriver(s)
        \/ InstantBook_NotePassenger(s)

SocketSpec == SocketInit /\ [][SocketNext]_vars

-----------------------------------------------------------------------------
(* Booking requests for every seat count, on rides of every size *)

\* rideSchema: totalSeats min 1, max 8.
SeatInit ==
    /\ deployment = "clerk"
    /\ ioReady = TRUE
    /\ \E n \in 1..RideSeatsMax, p \in 1..MaxPrice :
         /\ ride = ClerkRide(n, p)
         /\ hist = [avail0 |-> n, solo |-> TRUE, arrived |-> 0, accepted |-> FALSE,
                    servers |-> Started(ioReady), inits |-> Started(ioReady)]
    /\ bookings = <<>>
    /\ notifications = EmptyBag
    /\ payments = <<>>
    /\ reqs = [s \in Slots |-> Idle]
    /\ reply = NoReply

SeatNext ==
    \E s \in Slots :
        \/ CreateBooking_ReadRideAny(s)
        \/ CreateBooking_FindExisting(s)
        \/ CreateBooking_Save(s)
        \/ CreateBooking_Notify(s)

SeatSpec == SeatInit /\ [][SeatNext]_vars

-----------------------------------------------------------------------------
(* Vocabulary of the properties *)

\* No request is in flight.
Quiescent == \A s \in Slots : ~InFlight(s)

\* This step is the arrival of request op(user, bid): it either answered at
\* once or took a slot.
Arrived(op, user, bid) ==
    /\ hist'.arrived = hist.arrived + 1
    /\ \/ reply'.op = op /\ reply'.user = user /\ reply'.bid = bid
       \/ \E s \in Slots :
            /\ ~InFlight(s)
            /\ reqs'[s].op = op /\ reqs'[s].user = user /\ reqs'[s].bid = bid

\* The seats of the first n bookings whose status is one of statuses.
RECURSIVE SeatsOf(_, _)
SeatsOf(n, statuses) ==
    IF n = 0 THEN 0
    ELSE SeatsOf(n - 1, statuses)
           + (IF bookings[n].status \in statuses THEN bookings[n].seatsBooked ELSE 0)

\* The bookings of a passenger that are neither cancelled nor declined.
ActiveOf(p) == {b \in ActiveIds : bookings[b].passenger = p}

\* The request in slot s has inserted its booking and is still running.
Inserted(s) == reqs[s].op \in CreateOps /\ reqs[s].bid # 0

-----------------------------------------------------------------------------
(* Seat inventory *)

\* C1: in every reachable state, after any sequence and any interleaving of
\* create, accept, decline, cancel, cancel-ride and ride-update requests, the
\* persisted ride has 0 <= availableSeats <= totalSeats.
C1_SeatsWithinTotal ==
    /\ ride.availableSeats >= 0
    /\ "totalSeats" \in DOMAIN ride => ride.availableSeats <= ride.totalSeats

\* C2: in every reachable state, totalSeats - availableSeats of the ride is
\* the sum of seatsBooked over its pending and accepted bookings.
C2_SeatsConserved ==
    "totalSeats" \in DOMAIN ride =>
        ride.totalSeats - ride.availableSeats
          = SeatsOf(Len(bookings), {"pending", "accepted"})

\* C3: on a ride with one seat available, two booking requests of two
\* passengers for one seat each, running concurrently, never both create a
\* booking: exactly one does and the other is refused for lack of seats.
C3_NotBothCreate ==
    ~ /\ hist.avail0 = 1
      /\ hist.arrived = 2
      /\ \A s \in Slots : Inserted(s)
      /\ \A s, t \in Slots : s # t => reqs[s].user # reqs[t].user


-----------------------------------------------------------------------------
(* Booking lifecycle *)

C4_OneActive == \A p \in Users : Cardinality(ActiveOf(p)) <= 1

\* A booking request that ends without inserting, while its passenger holds
\* an active booking, is answered as a duplicate.
C4_SecondRejected ==
    \A s \in Slots :
        (/\ reqs[s].op \in CreateOps
         /\ reqs[s].bid = 0
         /\ reqs'[s] = Idle
         /\ ActiveOf(reqs[s].user) # {})
          => reply'.res = "duplicate"

\* C4: there is at most one active booking (neither cancelled nor declined)
\* per ride and passenger, also when the passenger sends two booking requests
\* concurrently; the second attempt is rejected as a duplicate booking.
C4_NoDuplicateBooking == [](C4_OneActive) /\ [][C4_SecondRejected]_vars

\* C5: a booking is created and then cancelled by its passenger, with or
\* without the driver's accept in between and nothing else done to the ride:
\* availableSeats is what it was before the booking was created.
C5_CancelRestoresSeats ==
    (/\ hist.solo
     /\ Quiescent
     /\ Len(bookings) = 1
     /\ bookings[1].status = "cancelled")
      => ride.availableSeats = hist.avail0

\* Booking 1 was created, accepted by the driver and then cancelled by its
\* passenger, and nothing else happened.
C5_AcceptedThenCancelled ==
    /\ hist.solo
    /\ hist.accepted
    /\ Quiescent
    /\ Len(bookings) = 1
    /\ bookings[1].status = "cancelled"
    /\ reply.op = "cancelBooking"
    /\ reply.res = "ok"

C6_SecondDecision ==
    \A op \in {"acceptBooking", "declineBooking"}, b \in DOMAIN bookings :
        (/\ Arrived(op, ride.driver, b)
         /\ bookings[b].status \in {"accepted", "declined"})
          => /\ reply'.op = op
             /\ reply'.res = "invalid_state"
             /\ UNCHANGED <<bookings, ride, notifications>>

\* C6: the driver's accept or decline of a booking that is already accepted or
\* declined is rejected as an invalid state transition, and that call changes
\* neither the booking's status nor the ride's availableSeats.
C6_DecidedOnce == [][C6_SecondDecision]_vars

\* The driver has just been refused a second decision on an accepted booking.
C6_SecondCallRefused ==
    /\ reply.op \in {"acceptBooking", "declineBooking"}
    /\ reply.res = "invalid_state"
    /\ reply.user = ride.driver
    /\ bookings[reply.bid].status = "accepted"

C7_AcceptStep ==
    \A s \in Slots :
        (/\ reqs[s].op = "acceptBooking"
         /\ reqs[s].pc = "saveRide"
         /\ reqs'[s] = Idle)
          => /\ bookings'[reqs[s].bid].status = "accepted"
             /\ ride'.availableSeats = ride.availableSeats

\* C7: an accept that goes through turns the booking from pending to accepted
\* and leaves the ride's availableSeats as it was.
C7_AcceptKeepsSeats == [][C7_AcceptStep]_vars

\* C8: a booking request by the ride's driver is rejected on every entry
\* point and changes nothing; in particular it never creates a booking.
C8_NoSelfBooking ==
    \A b \in DOMAIN bookings : bookings[b].passenger # ride.driver

C9_TerminalStep ==
    \A b \in DOMAIN bookings :
        bookings[b].status \in {"declined", "completed", "cancelled"}
          => bookings'[b].status = bookings[b].status

\* C9: once a booking is declined, completed or cancelled, no accept, decline,
\* passenger cancel or ride-cancellation cascade changes its status again.
C9_TerminalStays == [][C9_TerminalStep]_vars

\* The ride-cancelled notifications created for passenger p.
RideCancelledNotes(p) ==
    LET n == Note(p, "ride_cancelled", "Ride Cancelled")
        m == Note(p, "cancellation", "Ride cancelled")
    IN CopiesIn(n, notifications) + CopiesIn(m, notifications)

\* C10: once the driver's cancellation of the ride has been answered with
\* success, the ride is cancelled, no booking of it is left pending or
\* accepted, and each passenger has at most one ride-cancelled notification.
C10_RideCancelCascades ==
    (/\ reply.op \in {"cancelRide", "instantCancelRide"}
     /\ reply.res = "ok"
     /\ Quiescent)
      => /\ ride.status = "cancelled"
         /\ \A b \in DOMAIN bookings :
                bookings[b].status \notin {"pending", "accepted", "booked"}
         /\ \A p \in Passengers : RideCancelledNotes(p) <= 1


-----------------------------------------------------------------------------
(* Atomicity and races of the lifecycle operations *)

\* The ride write of the accept or cancel in slot s is refused by save().
RideWriteFails(s) ==
    LET seats == bookings[reqs[s].bid].seatsBooked
    IN /\ reqs[s].pc = "saveRide"
       /\ \/ /\ reqs[s].op = "acceptBooking"
             /\ ~RideSaveOk(reqs[s].doc, AcceptedRide(reqs[s].doc, seats))
          \/ /\ reqs[s].op = "cancelBooking"
             /\ ~RideSaveOk(reqs[s].doc, RestoredRide(reqs[s].doc, seats))

C11_FailedStep ==
    \A s \in Slots :
        (RideWriteFails(s) /\ reqs'[s] = Idle)
          => bookings'[reqs[s].bid].status
               # (IF reqs[s].op = "acceptBooking" THEN "accepted" ELSE "cancelled")

\* C11: no lifecycle operation applies partially: when the ride's seat write
\* of an accept or a cancel fails, the booking's status change of that
\* operation is not visible afterwards either.
C11_BothWritesOrNone == [][C11_FailedStep]_vars


\* Booking 1 was created, and an accept and a decline of it both went past
\* their checks; nothing else was asked of the ride.
BothDecided ==
    /\ Quiescent
    /\ hist.arrived = 3
    /\ Len(bookings) = 1
    /\ hist.accepted
    /\ CopiesIn(Note(bookings[1].passenger, "booking_declined", "Booking Declined"),
                notifications) = 1

\* C12: an accept and a decline racing on the same pending booking never end
\* in a declined booking whose seats were taken from the ride, nor in an
\* accepted booking whose seats were not.
C12_AcceptDeclineRace ==
    BothDecided =>
        ride.availableSeats
          = hist.avail0 - SeatsOf(Len(bookings), {"pending", "accepted"})


-----------------------------------------------------------------------------
(* Decline and cancel *)

\* The driver's decline of booking 1 has just been answered with success, and
\* only booking 1's own requests have run, one at a time.
C13_DeclinedAlone ==
    /\ hist.solo
    /\ Quiescent
    /\ Len(bookings) = 1
    /\ reply.op = "declineBooking"
    /\ reply.res = "ok"

\* C13: a successful decline of a pending booking leaves the booking declined
\* and the ride's availableSeats at what it was before the booking was created.
C13_DeclineRestoresSeats ==
    C13_DeclinedAlone =>
        /\ bookings[1].status = "declined"
        /\ ride.availableSeats = hist.avail0


\* The status the cancel in slot s found when it loaded the booking.
PriorStatus(s) == IF reqs[s].pc = "saveRide" THEN "accepted" ELSE reqs[s].prev

C14_Refused ==
    \A b \in DOMAIN bookings :
        (/\ Arrived("cancelBooking", bookings[b].passenger, b)
         /\ bookings[b].status \in {"cancelled", "declined"})
          => /\ reply'.op = "cancelBooking"
             /\ reply'.res = "invalid_state"
             /\ UNCHANGED <<bookings, ride, notifications>>

C14_Released ==
    \A s \in Slots :
        (/\ reqs[s].op = "cancelBooking"
         /\ InFlight(s)
         /\ reqs'[s] = Idle
         /\ reply'.res = "ok")
          => (ride'.availableSeats
                = ride.availableSeats + bookings[reqs[s].bid].seatsBooked)
               <=> (PriorStatus(s) \in {"pending", "accepted"})

\* C14: a passenger's successful cancel gives seatsBooked back to the ride if
\* and only if the booking was pending or accepted before, and a cancel of a
\* booking that is already cancelled or declined is rejected as an invalid
\* state transition and changes nothing.
C14_CancelReleasesHeld == [][C14_Refused /\ C14_Released]_vars


\* A cancel of booking b other than the one in slot s has already given the
\* seats of b back: the booking is stored as cancelled, or that cancel is past
\* its release of the seats.
ReleasedBefore(s, b) ==
    \/ bookings[b].status = "cancelled"
    \/ \E t \in Slots \ {s} :
          /\ reqs[t].op = "instantCancel"
          /\ reqs[t].bid = b
          /\ reqs[t].pc \in {"saveBooking", "noteDriver", "notePassenger"}

C15_ReleaseStep ==
    \A s \in Slots :
        (/\ reqs[s].op = "instantCancel"
         /\ reqs[s].pc = "release"
         /\ reqs'[s] # reqs[s]
         /\ ride'.availableSeats > ride.availableSeats)
          => ~ReleasedBefore(s, reqs[s].bid)

\* C15: the seats of a reservation are given back at most once: of two cancel
\* calls for the same booking, one after the other or overlapping, only one
\* increases the ride's availableSeats.
C15_ReleasedOnce == [][C15_ReleaseStep]_vars


-----------------------------------------------------------------------------
(* Who may act *)

ActorOps == {"acceptBooking", "declineBooking", "cancelBooking", "instantCancel",
             "cancelRide", "instantCancelRide"}

\* Request op(user, b) comes from someone who is not the user the operation
\* belongs to: the ride's driver for accept, decline and cancelRide, the
\* booking's passenger for a cancel.
WrongActor(op, user, b) ==
    \/ /\ op \in {"acceptBooking", "declineBooking"}
       /\ b \in DOMAIN bookings
       /\ user # ride.driver
    \/ /\ op \in {"cancelBooking", "instantCancel"}
       /\ b \in DOMAIN bookings
       /\ user # bookings[b].passenger
    \/ /\ op \in {"cancelRide", "instantCancelRide"}
       /\ b = 0
       /\ user # ride.driver

\* The answer a wrong actor gets: 403, except that DELETE /:rideId looks the
\* ride up by id and driver together and answers 404, and that POST
\* /cancel/:bookingId answers 404 for a booking that is not booked before it
\* looks at the caller.
RefusalOf(op, b) ==
    IF op = "cancelRide" THEN "not_found"
    ELSE IF op = "instantCancel" /\ bookings[b].status # "booked" THEN "not_found"
    ELSE "unauthorized"

C16_UnauthorizedStep ==
    \A op \in ActorOps, user \in Users, b \in BookingIds \cup {0} :
        (Arrived(op, user, b) /\ WrongActor(op, user, b))
          => /\ reply'.op = op /\ reply'.user = user
             /\ reply'.res = "unauthorized"
             /\ UNCHANGED <<ride, bookings, notifications>>

C16_RefusedStep ==
    \A op \in ActorOps, user \in Users, b \in BookingIds \cup {0} :
        (Arrived(op, user, b) /\ WrongActor(op, user, b))
          => /\ reply'.op = op /\ reply'.user = user
             /\ reply'.res = RefusalOf(op, b)
             /\ UNCHANGED <<ride, bookings, notifications>>

C17_TerminalStep ==
    \A op \in {"cancelRide", "instantCancelRide"} :
        (/\ Arrived(op, ride.driver, 0)
         /\ ride.status \in {"cancelled", "completed"})
          => /\ reply'.op = op
             /\ reply'.res = "invalid_state"
             /\ UNCHANGED <<ride, bookings, notifications>>

\* C17: the driver's cancelRide on a ride that is already cancelled or completed
\* is rejected as already terminal and changes nothing.
C17_CancelTerminalRefused == [][C17_TerminalStep]_vars


C18_CreateStep ==
    (\/ Len(bookings') > Len(bookings)
     \/ \E s \in Creating :
                         /\ reqs'[s] # reqs[s]
                         /\ ride'.availableSeats < ride.availableSeats)
      => ride.status = "active"

\* C18: seats are reserved only on an active ride: no create entry point stores
\* a booking or lowers availableSeats while the ride is cancelled or completed,
\* even when the ride is cancelled between the request's check and its write.
C18_ReserveOnlyWhenActive == [][C18_CreateStep]_vars


-----------------------------------------------------------------------------
(* Booking again *)

\* Passenger p has a booking that was cancelled or declined, and none that is
\* still active or being created by another request than the one in slot s.
FreeToRebook(s, p) ==
    /\ \E b \in DOMAIN bookings :
          /\ bookings[b].passenger = p
          /\ bookings[b].status \in {"cancelled", "declined"}
    /\ ActiveOf(p) = {}
    /\ \A t \in Creating \ {s} : reqs[t].user # p

C19_RebookStep ==
    \A s \in Creating :
        (/\ reqs[s].bid = 0
         /\ reqs'[s] = Idle
         /\ FreeToRebook(s, reqs[s].user)
         /\ reqs[s].user # ride.driver
         /\ ride.status = "active"
         /\ ride.availableSeats >= reqs[s].seats)
          => reply'.res = "ok"

\* C19: uniqueness covers active bookings only: once a passenger's booking on a
\* ride is cancelled or declined, a new create by that passenger on the same
\* ride succeeds when the ride is active and has enough seats.
C19_RebookAfterRelease == [][C19_RebookStep]_vars


-----------------------------------------------------------------------------
(* Notifications *)

\* The positions of a request at which its writes are done and only its
\* notifications are left.
NotifyPcs == {"notify", "noteDriver", "notePassenger"}

C20_NotifyStep ==
    \A s \in Slots :
        (/\ InFlight(s)
         /\ reqs[s].pc \in NotifyPcs
         /\ reqs'[s] = Idle)
          => reply'.res = "ok"

\* C20: a notification failure never reaches the caller: once a create, accept,
\* decline, cancel or cancelRide has committed its writes, the request reports
\* success even if the notification write or the real-time publish fails, the
\* channel not being initialised included.
C20_NotificationNeverFails == [][C20_NotifyStep]_vars


\* How many stored notifications are addressed to one of users.
RECURSIVE CountNotes(_, _)
CountNotes(notes, users) ==
    IF notes = {} THEN 0
    ELSE LET n == CHOOSE x \in notes : TRUE
         IN (IF n.user \in users THEN CopiesIn(n, notifications) ELSE 0)
              + CountNotes(notes \ {n}, users)

NotesTo(u) == CountNotes(BagToSet(notifications), {u})

\* The passenger created booking 1 and then cancelled it, both answered with
\* success, and nothing else was ever requested.
C21_CreatedThenCancelled ==
    /\ hist.solo /\ Quiescent /\ hist.arrived = 2
    /\ Len(bookings) = 1
    /\ reply.op \in {"cancelBooking", "instantCancel"}
    /\ reply.res = "ok"

\* C21: every successful lifecycle transition stores exactly one notification
\* for the counterpart: after a create and a cancel of the same booking the
\* ride's driver holds two, one for each.
C21_OneNotePerTransition ==
    C21_CreatedThenCancelled => NotesTo(ride.driver) = 2


-----------------------------------------------------------------------------
(* Payment settlement *)

C22_SettleStep ==
    \A b \in DOMAIN bookings :
        (/\ Arrived("createPayment", bookings[b].passenger, b)
         /\ bookings[b].status \in {"pending", "declined", "cancelled"}
         /\ ~(reply'.op = "createPayment" /\ reply'.res = "validation"))
          => /\ reply'.op = "createPayment"
             /\ reply'.res = "invalid_state"
             /\ UNCHANGED <<payments, bookings>>

\* C22: a well-formed settlement request of the passenger for a booking that is
\* pending, declined or cancelled is rejected as an invalid state, creates no
\* payment record and leaves the booking, its paymentStatus included, as it was.
C22_SettleOnlyAccepted == [][C22_SettleStep]_vars

\* A passenger's settlement request for their unaccepted booking was refused.
C22_UnacceptedRefused ==
    /\ reply.op = "createPayment"
    /\ reply.res = "invalid_state"
    /\ reply.bid \in DOMAIN bookings
    /\ bookings[reply.bid].passenger = reply.user
    /\ bookings[reply.bid].status = "pending"
    /\ payments = <<>>


C23_FailureStep ==
    \A s \in Paying :
        (/\ reqs'[s] = Idle
         /\ reply'.res = "payment_failed")
          => /\ bookings'[reqs[s].bid].paymentStatus = "failed"
             /\ payments'[reqs[s].doc.payment].failureReason # "none"
             /\ bookings'[reqs[s].bid].status = bookings[reqs[s].bid].status

\* C23: when the gateway reports failure, the booking's paymentStatus becomes
\* failed, a failure reason is recorded, and the booking's status is left as
\* it was.
C23_GatewayFailureRecorded == [][C23_FailureStep]_vars


\* Booking b carries the identifiers of a succeeded payment made for it.
ReceiptRecorded(bs, ps, b) ==
    \E p \in DOMAIN ps :
        /\ ps[p].booking = b
        /\ ps[p].status = "succeeded"
        /\ ps[p].mpesaTransactionId # 0
        /\ bs[b].mpesaTransactionId = ps[p].mpesaTransactionId
        /\ bs[b].mpesaReceiptNumber = ps[p].mpesaReceiptNumber

C24_SuccessStep ==
    \A s \in Paying :
        (/\ reqs[s].pc \in {"saveSucceeded", "saveBooking", "notify"}
         /\ reqs'[s] = Idle)
          => /\ reply'.res = "ok"
             /\ bookings'[reqs[s].bid].paymentStatus = "paid"
             /\ ReceiptRecorded(bookings', payments', reqs[s].bid)
             /\ CopiesIn(Note(ride.driver, "payment", "Payment Received"),
                         notifications')
                  = CopiesIn(Note(ride.driver, "payment", "Payment Received"),
                             notifications) + 1

\* C24: when the gateway reports success, the request ends with the booking's
\* paymentStatus paid, the provider's transaction and receipt identifiers on
\* the booking, and one more payment notification stored for the ride's driver.
C24_GatewaySuccessRecorded == [][C24_SuccessStep]_vars

\* A settlement has just been answered with success.
C24_Settled ==
    /\ reply.op = "createPayment"
    /\ reply.res = "ok"
    /\ bookings[reply.bid].paymentStatus = "paid"


-----------------------------------------------------------------------------
(* What a booking and a ride keep *)

C25_AmountStep ==
    deployment = "clerk" =>
      /\ \A b \in DOMAIN bookings :
            bookings'[b].totalAmount = bookings[b].totalAmount
      /\ \A s \in Creating :
            Len(bookings') = Len(bookings) + 1 /\ reqs'[s] # reqs[s]
              => bookings'[Len(bookings')].totalAmount
                   = bookings'[Len(bookings')].seatsBooked * reqs[s].doc.pricePerSeat

C26_UpdateStep ==
    \A s \in Slots :
        (/\ reqs[s].op = "updateRide"
         /\ reqs'[s] # reqs[s]
         /\ Len(bookings) > 0)
          => ride'.availableSeats = ride.availableSeats

\* C26: availableSeats moves only by the booking lifecycle's reservation and
\* release: a ride update leaves it as it was on a ride that has bookings,
\* whatever the request body holds.
C26_UpdateKeepsSeats == [][C26_UpdateStep]_vars


Min(a, b) == IF a < b THEN a ELSE b

C27_ReleaseStep ==
    \A s \in Slots :
        LET seats == bookings[reqs[s].bid].seatsBooked
        IN /\ (/\ reqs[s].op = "cancelBooking"
               /\ reqs[s].pc = "saveRide"
               /\ reqs'[s] # reqs[s])
                => /\ reply'.res = "ok"
                   /\ ride'.availableSeats
                        = Min(ride.availableSeats + seats, ride.totalSeats)
           /\ (/\ reqs[s].op = "instantCancel"
               /\ reqs[s].pc = "release"
               /\ reqs'[s] # reqs[s])
                => ride'.availableSeats
                     = Min(ride.availableSeats + seats, hist.avail0)

\* C27: a release of seats is clamped: it stores min(availableSeats + count,
\* totalSeats), never fails and never stores more than totalSeats, also when
\* the same seats are released a second time.
C27_ReleaseClamped == [][C27_ReleaseStep]_vars


\* C28: every payment attempt reaches a final outcome: a payment record that
\* is processing becomes succeeded or failed, a gateway error counting as
\* failed, and does not stay processing for ever.
C28_PaymentSettles ==
    \A p \in 1..MaxPayments :
        (Len(payments) >= p /\ payments[p].status = "processing")
          ~> (Len(payments) >= p /\ payments[p].status \in {"succeeded", "failed"})

\* A payment went from processing to failed after the gateway refused it.
C28_PaymentFailed ==
    \E p \in DOMAIN payments :
        payments[p].status = "failed" /\ payments[p].failureReason # "none"


-----------------------------------------------------------------------------
(* Why a reservation was refused *)

\* The outcomes of a booking request that refuse it for the state of the ride.
RideRefusals == {"not_active", "insufficient", "unavailable"}

\* The seats the request answered in this step had asked for: those of the
\* request in slot s, or, for one answered on arrival, at most the most a
\* request asks for.
SeatsAsked(s) == IF InFlight(s) THEN reqs[s].seats ELSE MaxSeatsBooked

C29_RefusalStep ==
    \A s \in Slots :
        (/\ reqs'[s] = Idle
         /\ \A t \in Slots \ {s} : reqs'[t] = reqs[t]
         /\ reply'.op \in CreateOps
         /\ reply'.res \in RideRefusals
         /\ InFlight(s) \/ Free(s))
          => \/ reply'.res = "not_active" /\ ride.status # "active"
             \/ reply'.res = "insufficient" /\ ride.availableSeats < SeatsAsked(s)

\* C29: a refused seat reservation says why: 'ride not active' and 'not enough
\* available seats' are reported as two distinct outcomes, each only when it
\* is the case, on every path of the booking operation, the conditional
\* update included.
C29_RefusalSaysWhy == [][C29_RefusalStep]_vars


-----------------------------------------------------------------------------
(* Capacity at acceptance *)

C30_AcceptStep ==
    \A b \in DOMAIN bookings :
        (/\ Arrived("acceptBooking", ride.driver, b)
         /\ bookings[b].status = "pending"
         /\ ride.availableSeats < bookings[b].seatsBooked)
          => /\ reply'.op = "acceptBooking"
             /\ reply'.res = "insufficient"
             /\ UNCHANGED <<ride, bookings>>

C30_NotOversold ==
    deployment = "clerk"
      => SeatsOf(Len(bookings), {"accepted"}) <= ride.totalSeats

\* C30: with seats deducted at acceptance, an accept is rejected when the ride
\* has fewer availableSeats than the booking's seatsBooked, and however accepts
\* of different pending bookings of a ride interleave, the seats of its
\* accepted bookings never add up to more than totalSeats.
C30_AcceptWithinCapacity == []C30_NotOversold /\ [][C30_AcceptStep]_vars


-----------------------------------------------------------------------------
(* What the caller is told *)

\* Booking 1 was created and one more request of its lifecycle, the only
\* other request there has been, has just been answered with an error.
C31_SecondRequestFailed ==
    /\ hist.solo /\ Quiescent /\ hist.arrived = 2
    /\ Len(bookings) = 1
    /\ reply.op \in {"acceptBooking", "declineBooking", "cancelBooking"}
    /\ reply.res # "ok"

\* C31: the outcome an operation reports matches what it committed: when an
\* accept (or another lifecycle operation) answers with an error, the booking's
\* status and the ride's availableSeats are what they were before the call.
C31_ErrorMeansUnchanged ==
    C31_SecondRequestFailed
      => /\ bookings[1].status = "pending"
         /\ ride.availableSeats = hist.avail0


\* The statuses in which a booking holds seats.
SeatHolding == {"pending", "accepted", "booked"}

\* cancelRide is answered with success in this step while the booking request
\* in slot t, which has stored its booking, is still running.
C32_CancelledDuringCreate(t) ==
    /\ t \in Creating /\ Inserted(t)
    /\ reqs'[t] = reqs[t]
    /\ reply'.op \in {"cancelRide", "instantCancelRide"}
    /\ reply'.res = "ok"

C32_RaceStep ==
    \A t \in Slots :
        C32_CancelledDuringCreate(t)
          => bookings'[reqs[t].bid].status \notin SeatHolding

\* C32: when a createBooking and the driver's cancelRide of the same ride run
\* together, the cancelled ride is left with no booking in a seat-holding
\* status: the booking the create has stored by the time the cancellation is
\* answered is cancelled with the ride.
C32_NoLiveBookingOnCancelledRide == [][C32_RaceStep]_vars

\* The driver's cancellation of the ride has been answered with an error and
\* the ride is not cancelled in the store.
C33_CancellationNotPersisted ==
    /\ Quiescent
    /\ reply.op = "cancelRide" /\ reply.res = "server_error"
    /\ ride.status # "cancelled"

\* C33: when persisting the ride's cancellation has failed, no passenger has
\* been given a ride-cancelled notification and no booking has been cancelled.
C33_NothingBeforeCommit ==
    C33_CancellationNotPersisted
      => /\ \A p \in Passengers : RideCancelledNotes(p) = 0
         /\ \A b \in DOMAIN bookings : bookings[b].status # "cancelled"

\* C34: every real-time event published with a notification is addressed to a
\* room that the socket of the notification's recipient joins.
C34_EventsReachRecipient ==
    \A n \in BagToSet(notifications) :
        Publishes(n) => EventRoom(n) \in JoinedRooms(n.user)

\* Every stored booking holds between one seat and the ride's total.
C35_SeatsWithinRide ==
    \A b \in DOMAIN bookings :
        bookings[b].seatsBooked >= 1 /\ bookings[b].seatsBooked <= ride.totalSeats

\* The first request ever made is a passenger's createBooking for a seat count
\* within the ride's total and its available seats, the ride is active, and
\* the request is about to save its booking.
C35_InRangeAtSave(s) ==
    /\ reqs[s].op = "createBooking" /\ reqs[s].pc = "save"
    /\ hist.arrived = 1
    /\ ride.status = "active"
    /\ reqs[s].seats >= 1
    /\ reqs[s].seats <= ride.totalSeats
    /\ reqs[s].seats <= ride.availableSeats

C35_SaveStep ==
    \A s \in Slots :
        (C35_InRangeAtSave(s) /\ reqs'[s] # reqs[s])
          => /\ reqs'[s].pc = "notify"
             /\ Len(bookings') = 1

\* C35: every stored booking has 1 <= seatsBooked <= the ride's totalSeats, and
\* a createBooking request for a seat count in that range that does not exceed
\* availableSeats on an active ride stores its booking.
C35_SeatRangeAccepted == []C35_SeatsWithinRide /\ [][C35_SaveStep]_vars

NoteOps == {"markRead", "markAllRead", "deleteNotification"}

\* The notifications of the bag with the read flag left out of account: how
\* many there are for this recipient, type and title.
CopiesOfEither(n, bag) ==
    CopiesIn([n EXCEPT !.read = FALSE], bag) + CopiesIn([n EXCEPT !.read = TRUE], bag)

AllNotes == BagToSet(notifications) \cup BagToSet(notifications')

\* A step in which a notification route answers: no notification of another
\* user changes or goes, and the caller's own change in nothing but the read
\* flag (mark) or lose at most one document (delete).
C36_NoteStep ==
    (reply'.op \in NoteOps)
      => /\ \A n \in AllNotes :
              n.user # reply'.user
                => CopiesIn(n, notifications') = CopiesIn(n, notifications)
         /\ \A n \in AllNotes :
              /\ reply'.op # "deleteNotification"
                   => /\ CopiesOfEither(n, notifications')
                           = CopiesOfEither(n, notifications)
                      /\ (n.read => CopiesIn(n, notifications')
                                      >= CopiesIn(n, notifications))
              /\ reply'.op = "deleteNotification"
                   => CopiesIn(n, notifications') <= CopiesIn(n, notifications)
         /\ BagCardinality(notifications') >= BagCardinality(notifications) - 1

C37_GetIOStep ==
    (reply'.op = "getIO")
      => IF ioReady
           THEN reply'.res = "ok" /\ reply'.io = Handle
           ELSE reply'.res = "not_initialized"

\* At most one Server is ever constructed, and every call of initSocket
\* returns that one.
C37_OneServer ==
    /\ hist.servers <= 1
    /\ reply.op = "initSocket" => reply.io = 1 /\ ioReady

\* C37: getIO called before initSocket fails with 'not initialized', and
\* initSocket called more than once constructs the server once and returns the
\* same handle each time.
C37_HandleInitialisedOnce == []C37_OneServer /\ [][C37_GetIOStep]_vars

\* initSocket has been called at least twice and has just answered.
C37_InitialisedTwice ==
    /\ reply.op = "initSocket"
    /\ hist.inits >= 2

\* A step in which a booking becomes accepted is taken while the ride is
\* active in the store.
C38_AcceptStep ==
    \A b \in DOMAIN bookings :
        (bookings'[b].status = "accepted" /\ bookings[b].status # "accepted")
          => ride.status = "active"

\* C38: no booking becomes accepted on a ride that is no longer active.
C38_AcceptOnlyOnActiveRide == [][C38_AcceptStep]_vars

\* A payment record with status succeeded exists for booking b.
HasSucceeded(b) ==
    \E p \in DOMAIN payments :
        payments[p].booking = b /\ payments[p].status = "succeeded"

\* C39: once no request is in flight, a booking's paymentStatus is paid exactly
\* when a payment record with status succeeded exists for it; a failure after
\* the booking was marked paid does not leave the booking paid with its
\* payment failed.
C39_PaidIffSucceeded ==
    Quiescent
      => \A b \in DOMAIN bookings :
             bookings[b].paymentStatus = "paid" <=> HasSucceeded(b)

\* The payment records of booking b that have succeeded.
SucceededFor(b) ==
    {p \in DOMAIN payments : payments[p].booking = b /\ payments[p].status = "succeeded"}

C40_ChargedOnce == \A b \in DOMAIN bookings : Cardinality(SucceededFor(b)) <= 1

\* A settlement request of the passenger that arrives when the booking is
\* already paid is rejected at once, and no payment record is created.
C40_PaidStep ==
    \A b \in DOMAIN bookings :
        (/\ Arrived("createPayment", bookings[b].passenger, b)
         /\ bookings[b].paymentStatus = "paid"
         /\ ~(reply'.op = "createPayment" /\ reply'.res = "validation"))
          => /\ reply'.op = "createPayment"
             /\ reply'.res \in {"already_paid", "invalid_state"}
             /\ UNCHANGED payments

\* C40: at most one payment record per booking reaches succeeded, and a request
\* made when the booking is already paid is rejected without a payment record
\* being created or the gateway contacted.
C40_AtMostOneCharge == []C40_ChargedOnce /\ [][C40_PaidStep]_vars

=============================================================================
